---------------------------- MODULE Spec2Model ----------------------------
(***************************************************************************)
(* Model of the IDS dashboard backend (src/backend/main.py): the monitoring*)
(* flag, the traffic-source switch, the shared statistics with the ring of *)
(* recent predictions, the registry of dataset-replay jobs and the replay  *)
(* worker, the live /predict path and the operator endpoints.              *)
(*                                                                         *)
(* Granularity.  Every `with <lock>:` block of the source is one atomic    *)
(* step, and so is every single read or write of a shared global made      *)
(* outside a lock.  /predict is an `async def` without an await, so the    *)
(* event loop runs one live call at a time; the sync endpoints and the     *)
(* replay workers run in pool threads and interleave with it and with each *)
(* other between any two such steps.                                       *)
(***************************************************************************)
EXTENDS Integers, Sequences, FiniteSets, TLC

(* ------------------------------ bounds -------------------------------- *)
MaxLen == 3         \* rows of an uploaded table: 0..MaxLen
MaxRowsArg == 2     \* values of the max_rows query parameter: 1..MaxRowsArg
MaxTotal == 2       \* a live call is only issued while stats total < MaxTotal

RecentMaxLen == 3   \* capacity of recent_preds; stands for maxlen=200
ProgressStride == 2 \* records per progress update; stands for the 25

\* identifiers of the replay jobs a run may submit: two, so that two
\* background tasks can overlap
JobIds == {1, 2}

Min(a, b) == IF a <= b THEN a ELSE b

(* ----------------------- oracle (model_loader) ------------------------ *)
\* predict_sample returns (label, probability); probabilities are kept in
\* units of 1e-5 so that round(prob, 4) is a real conversion.
OracleOutcomes ==
    { <<"BENIGN", 91234>>, <<"ATTACK", 87654>> }

OracleError == "ClassificationError"

\* round(float(prob), 4), result in units of 1e-4
Round4(p) == (p + 5) \div 10

_risk_from_label(label, prob) ==
    IF label # "BENIGN"
    THEN (IF prob >= 80000 THEN "High" ELSE "Medium")
    ELSE "Low"

\* the dashboard item built by _push_prediction_to_dashboard; time, src, dst
\* and type are display values drawn from the clock and random and are left
\* out
MakeItem(label, prob) ==
    [label |-> label, probability |-> Round4(prob),
     risk |-> _risk_from_label(label, prob)]

NoItem == [label |-> "", probability |-> 0, risk |-> ""]
NoPrediction == [label |-> "", probability |-> 0]

(* --------------------------- source mode ------------------------------ *)
LegalSources == {"generator", "dataset"}

\* the strings an operator may send to /source/set
SourceInputs == {"generator", "dataset", " Dataset ", "bogus", ""}

\* the values the TRAFFIC_SOURCE environment setting may have at startup
EnvInputs == {"generator", "dataset", " Dataset ", "bogus"}

\* (src or "").strip().lower()
Normalize(src) ==
    CASE src = " Dataset " -> "dataset"
      [] OTHER -> src

\* worker[j].late is a history variable: the number of events the worker
\* has recorded while monitoring was stopped, since monitoring was last
\* started.
VARIABLES
    monitoring_state,  \* [running, started_at, stopped_at]
    traffic_source,    \* "generator" | "dataset"
    stats_state,       \* [total, benign, attack, last_prediction]
    recent_preds,      \* newest first, at most RecentMaxLen items
    test_jobs,         \* job id -> job record
    worker,            \* job id -> locals of its _run_test_job task
    live,              \* the /predict call the event loop is running
    setter,            \* the /source/set call in progress
    dataset_test_resp  \* response of the latest POST /dataset/test

vars == <<monitoring_state, traffic_source, stats_state, recent_preds,
          test_jobs, worker, live, setter, dataset_test_resp>>

(* ------------------------------ messages ------------------------------ *)
MsgStarted == "Testing started..."
MsgStopped == "Monitoring stopped during dataset test."
MsgDone == "Dataset test done."
MsgProcessed(processed, total) ==
    "Processed " \o ToString(processed) \o "/" \o ToString(total)

(* --------------------------- initial state ---------------------------- *)
IdleWorker ==
    [pc |-> "absent", prev_source |-> "generator", total |-> 0,
     processed |-> 0, benign |-> 0, attack |-> 0, label |-> "", prob |-> 0,
     late |-> 0]

IdleLive == [pc |-> "idle", label |-> "", prob |-> 0,
             resp |-> [code |-> 0, item |-> NoItem]]

IdleSetter == [pc |-> "idle", src |-> "", resp |-> [code |-> 0, source |-> ""]]

\* module initialisation of traffic_source (main.py:38-40)
StartupSource(env) ==
    IF Normalize(env) \in LegalSources THEN Normalize(env) ELSE "generator"

Init ==
    /\ monitoring_state =
         [running |-> FALSE, started_at |-> FALSE, stopped_at |-> FALSE]
    /\ \E env \in EnvInputs : traffic_source = StartupSource(env)
    /\ stats_state = [total |-> 0, benign |-> 0, attack |-> 0,
                      last_prediction |-> NoPrediction]
    /\ recent_preds = << >>
    /\ test_jobs = << >>
    /\ worker = [j \in JobIds |-> IdleWorker]
    /\ live = IdleLive
    /\ setter = IdleSetter
    /\ dataset_test_resp = [code |-> 0, job_id |-> 0]

(* ------------------------- shared operations -------------------------- *)
_get_source == traffic_source

\* deque.append instead of appendleft: the new item goes to the right end
\* and a full deque drops its leftmost item
appendright(dq, x) ==
    IF Len(dq) < RecentMaxLen THEN dq \o <<x>> ELSE Tail(dq) \o <<x>>

\* deque.appendleft on a deque(maxlen=RecentMaxLen): the oldest item falls
\* off the right end when the deque is full
appendleft(dq, x) ==
    SubSeq(<<x>> \o dq, 1, Min(Len(dq) + 1, RecentMaxLen))

\* _push_prediction_to_dashboard with the attack branch counting nothing
_push_prediction_to_dashboard_no_attack(label, prob) ==
    /\ stats_state' =
         [total |-> stats_state.total + 1,
          benign |-> IF label = "BENIGN" THEN stats_state.benign + 1
                     ELSE stats_state.benign,
          attack |-> stats_state.attack,
          last_prediction |->
              [label |-> label, probability |-> Round4(prob)]]
    /\ recent_preds' = appendleft(recent_preds, MakeItem(label, prob))

\* the `with lock:` block of _push_prediction_to_dashboard
_push_prediction_to_dashboard(label, prob) ==
    /\ stats_state' =
         [total |-> stats_state.total + 1,
          benign |-> IF label = "BENIGN" THEN stats_state.benign + 1
                     ELSE stats_state.benign,
          attack |-> IF label = "BENIGN" THEN stats_state.attack
                     ELSE stats_state.attack + 1,
          last_prediction |->
              [label |-> label, probability |-> Round4(prob)]]
    /\ recent_preds' = appendleft(recent_preds, MakeItem(label, prob))

\* test_jobs[job_id] as _job_create stores it; updated_at counts the writes
\* of the record (the clock value itself is not modelled)
NewJob(total_rows) ==
    [status |-> "queued", processed |-> 0, total |-> total_rows,
     benign |-> 0, attack |-> 0, message |-> "None", updated_at |-> 0]

\* _job_update(job_id, **kwargs): kw is the record of keyword arguments
_job_update(job_id, kw) ==
    test_jobs' =
        IF job_id \notin DOMAIN test_jobs THEN test_jobs
        ELSE LET old == test_jobs[job_id]
                 new == [k \in DOMAIN old |->
                           IF k = "updated_at" THEN old.updated_at + 1
                           ELSE IF k \in DOMAIN kw THEN kw[k] ELSE old[k]]
             IN [test_jobs EXCEPT ![job_id] = new]

(* --------------------------- monitor control -------------------------- *)
start_monitoring ==
    /\ monitoring_state' =
         [running |-> TRUE, started_at |-> TRUE, stopped_at |-> FALSE]
    /\ worker' = [j \in JobIds |-> [worker[j] EXCEPT !.late = 0]]
    /\ UNCHANGED <<traffic_source, stats_state, recent_preds, test_jobs,
                   live, setter, dataset_test_resp>>

stop_monitoring ==
    /\ monitoring_state' =
         [monitoring_state EXCEPT !.running = FALSE, !.stopped_at = TRUE]
    /\ UNCHANGED <<traffic_source, stats_state, recent_preds, test_jobs,
                   worker, live, setter, dataset_test_resp>>

(* -------------------------------- stats ------------------------------- *)
\* reset_stats that zeroes the counters and leaves the deque alone
reset_stats_keep_recent ==
    /\ stats_state' = [total |-> 0, benign |-> 0, attack |-> 0,
                       last_prediction |-> NoPrediction]
    /\ UNCHANGED <<monitoring_state, traffic_source, recent_preds, test_jobs,
                   worker, live, setter, dataset_test_resp>>

reset_stats ==
    /\ stats_state' = [total |-> 0, benign |-> 0, attack |-> 0,
                       last_prediction |-> NoPrediction]
    /\ recent_preds' = << >>
    /\ UNCHANGED <<monitoring_state, traffic_source, test_jobs, worker,
                   live, setter, dataset_test_resp>>

\* round((count / total) * 100, 1) if total else 0, in units of 0.1 %
Pct(count, total_count) ==
    IF total_count = 0 THEN 0
    ELSE (count * 2000 + total_count) \div (2 * total_count)

\* GET /stats
get_stats ==
    [total |-> stats_state.total, benign |-> stats_state.benign,
     attack |-> stats_state.attack,
     benign_pct |-> Pct(stats_state.benign, stats_state.total),
     attack_pct |-> Pct(stats_state.attack, stats_state.total),
     last_prediction |-> stats_state.last_prediction]

\* GET /recent?limit=
recent(limit) ==
    IF ~monitoring_state.running THEN << >>
    ELSE SubSeq(recent_preds, 1, Min(limit, Len(recent_preds)))

IsAlert(x) == x.label # "BENIGN"

\* recent_alerts that cuts the buffer to limit items before filtering
recent_alerts_truncate_first(limit) ==
    IF ~monitoring_state.running THEN << >>
    ELSE SelectSeq(SubSeq(recent_preds, 1, Min(limit, Len(recent_preds))),
                   IsAlert)

\* GET /recent/alerts?limit=
recent_alerts(limit) ==
    IF ~monitoring_state.running THEN << >>
    ELSE LET attacks == SelectSeq(recent_preds, IsAlert)
         IN SubSeq(attacks, 1, Min(limit, Len(attacks)))

(* --------------------------- source control --------------------------- *)
\* POST /source/set up to the end of the `with SOURCE_LOCK:` block of
\* _set_source; a rejected value is answered with 400 at once
source_set_write(source) ==
    /\ setter.pc = "idle"
    /\ LET src == Normalize(source)
       IN IF src \notin LegalSources
          THEN /\ setter' = [IdleSetter EXCEPT
                                !.resp = [code |-> 400, source |-> ""]]
               /\ UNCHANGED traffic_source
          ELSE /\ traffic_source' = src
               /\ setter' = [pc |-> "return", src |-> src,
                             resp |-> [code |-> 0, source |-> ""]]
    /\ UNCHANGED <<monitoring_state, stats_state, recent_preds, test_jobs,
                   worker, live, dataset_test_resp>>

\* `return traffic_source` of _set_source, after the lock is released, and
\* the response of source_set
source_set_return ==
    /\ setter.pc = "return"
    /\ setter' = [IdleSetter EXCEPT
                     !.resp = [code |-> 200, source |-> traffic_source]]
    /\ UNCHANGED <<monitoring_state, traffic_source, stats_state,
                   recent_preds, test_jobs, worker, live, dataset_test_resp>>

(* ------------------------------ /predict ------------------------------ *)
LiveError(code) == [IdleLive EXCEPT !.resp = [code |-> code, item |-> NoItem]]

\* a new call arrives and runs _require_monitoring()
predict_require_monitoring ==
    /\ live.pc = "idle"
    /\ stats_state.total < MaxTotal
    /\ live' = IF ~monitoring_state.running
               THEN LiveError(409)
               ELSE [IdleLive EXCEPT !.pc = "require_source"]
    /\ UNCHANGED <<monitoring_state, traffic_source, stats_state,
                   recent_preds, test_jobs, worker, setter,
                   dataset_test_resp>>

\* predict_require_source that lets every source through
predict_require_source_any ==
    /\ live.pc = "require_source"
    /\ live' = [live EXCEPT !.pc = "predict_sample"]
    /\ UNCHANGED <<monitoring_state, traffic_source, stats_state,
                   recent_preds, test_jobs, worker, setter,
                   dataset_test_resp>>

\* _require_source("generator")
predict_require_source ==
    /\ live.pc = "require_source"
    /\ live' = IF _get_source # "generator"
               THEN LiveError(423)
               ELSE [live EXCEPT !.pc = "predict_sample"]
    /\ UNCHANGED <<monitoring_state, traffic_source, stats_state,
                   recent_preds, test_jobs, worker, setter,
                   dataset_test_resp>>

\* label, prob = predict_sample(payload); the oracle may raise
predict_predict_sample ==
    /\ live.pc = "predict_sample"
    /\ \/ \E o \in OracleOutcomes :
            live' = [live EXCEPT !.pc = "push", !.label = o[1], !.prob = o[2]]
       \/ live' = LiveError(500)
    /\ UNCHANGED <<monitoring_state, traffic_source, stats_state,
                   recent_preds, test_jobs, worker, setter,
                   dataset_test_resp>>

\* _push_prediction_to_dashboard(label, float(prob))
predict_push ==
    /\ live.pc = "push"
    /\ _push_prediction_to_dashboard(live.label, live.prob)
    /\ live' = [live EXCEPT !.pc = "return"]
    /\ UNCHANGED <<monitoring_state, traffic_source, test_jobs, worker,
                   setter, dataset_test_resp>>

\* return recent_preds[0]  (IndexError when the deque is empty)
predict_return ==
    /\ live.pc = "return"
    /\ live' = IF recent_preds = << >>
               THEN LiveError(500)
               ELSE [IdleLive EXCEPT
                        !.resp = [code |-> 200, item |-> recent_preds[1]]]
    /\ UNCHANGED <<monitoring_state, traffic_source, stats_state,
                   recent_preds, test_jobs, worker, setter,
                   dataset_test_resp>>

(* ---------------------------- dataset test ---------------------------- *)
\* _job_create: uuid4 gives an identifier no earlier job has
_job_create_id == Cardinality(DOMAIN test_jobs) + 1

\* total that ignores the max_rows limit
total_all_rows(df_len, max_rows) == df_len

\* total = min(len(df), max_rows) of _run_test_job; df and max_rows are
\* the task's arguments and never change, so the worker keeps the result
total(df_len, max_rows) == Min(df_len, max_rows)

\* dataset_test without the _require_monitoring() call
dataset_test_no_require(readable, df_len, max_rows) ==
    /\ _job_create_id \in JobIds
    /\ IF ~readable
       THEN /\ dataset_test_resp' = [code |-> 500, job_id |-> 0]
            /\ UNCHANGED <<test_jobs, worker>>
       ELSE LET job_id == _job_create_id
            IN /\ test_jobs' =
                    [k \in DOMAIN test_jobs \cup {job_id} |->
                        IF k = job_id THEN NewJob(Min(df_len, max_rows))
                        ELSE test_jobs[k]]
               /\ worker' = [worker EXCEPT ![job_id] =
                    [IdleWorker EXCEPT !.pc = "start",
                                       !.total = total(df_len, max_rows)]]
               /\ dataset_test_resp' = [code |-> 200, job_id |-> job_id]
    /\ UNCHANGED <<monitoring_state, traffic_source, stats_state,
                   recent_preds, live, setter>>

\* POST /dataset/test with an upload that _read_table_bytes can read or not
\* (unsupported extension, malformed content), holding df_len rows
dataset_test(readable, df_len, max_rows) ==
    /\ _job_create_id \in JobIds
    /\ IF ~monitoring_state.running
       THEN /\ dataset_test_resp' = [code |-> 409, job_id |-> 0]
            /\ UNCHANGED <<test_jobs, worker>>
       ELSE IF ~readable
       THEN /\ dataset_test_resp' = [code |-> 500, job_id |-> 0]
            /\ UNCHANGED <<test_jobs, worker>>
       ELSE LET job_id == _job_create_id
            IN /\ test_jobs' =
                    [k \in DOMAIN test_jobs \cup {job_id} |->
                        IF k = job_id THEN NewJob(Min(df_len, max_rows))
                        ELSE test_jobs[k]]
               /\ worker' = [worker EXCEPT ![job_id] =
                    [IdleWorker EXCEPT !.pc = "start",
                                       !.total = total(df_len, max_rows)]]
               /\ dataset_test_resp' = [code |-> 200, job_id |-> job_id]
    /\ UNCHANGED <<monitoring_state, traffic_source, stats_state,
                   recent_preds, live, setter>>

\* dataset_test_status that forgets a job once its worker has finished
dataset_test_status_live_only(job_id) ==
    IF job_id \in DOMAIN test_jobs /\ worker[job_id].pc # "finished"
    THEN [code |-> 200, job |-> test_jobs[job_id]]
    ELSE [code |-> 404, job |-> NewJob(0)]

\* GET /dataset/test/status
dataset_test_status(job_id) ==
    IF job_id \in DOMAIN test_jobs
    THEN [code |-> 200, job |-> test_jobs[job_id]]
    ELSE [code |-> 404, job |-> NewJob(0)]

(* --------------------------- _run_test_job ---------------------------- *)
\* prev_source = _get_source()
run_get_source(j) ==
    /\ worker[j].pc = "start"
    /\ worker' = [worker EXCEPT ![j].pc = "set_dataset",
                                ![j].prev_source = _get_source]
    /\ UNCHANGED <<monitoring_state, traffic_source, stats_state,
                   recent_preds, test_jobs, live, setter, dataset_test_resp>>

\* _set_source("dataset")
run_set_dataset(j) ==
    /\ worker[j].pc = "set_dataset"
    /\ traffic_source' = "dataset"
    /\ worker' = [worker EXCEPT ![j].pc = "job_running"]
    /\ UNCHANGED <<monitoring_state, stats_state, recent_preds, test_jobs,
                   live, setter, dataset_test_resp>>

\* _job_update(job_id, status="running", ...) and the zeroed local counters
run_job_running(j) ==
    /\ worker[j].pc = "job_running"
    /\ _job_update(j, [status |-> "running", message |-> MsgStarted])
    /\ worker' = [worker EXCEPT ![j].pc = "check", ![j].processed = 0,
                                ![j].benign = 0, ![j].attack = 0]
    /\ UNCHANGED <<monitoring_state, traffic_source, stats_state,
                   recent_preds, live, setter, dataset_test_resp>>

\* run_check without the monitoring test
run_check_ignoring_monitoring(j) ==
    /\ worker[j].pc = "check"
    /\ worker[j].processed < worker[j].total
    /\ worker' = [worker EXCEPT ![j].pc = "predict_sample"]
    /\ UNCHANGED <<monitoring_state, traffic_source, stats_state,
                   recent_preds, test_jobs, live, setter, dataset_test_resp>>

\* top of the loop body: if not monitoring_state["running"]
run_check(j) ==
    /\ worker[j].pc = "check"
    /\ worker[j].processed < worker[j].total
    /\ worker' = [worker EXCEPT ![j].pc =
                     IF ~monitoring_state.running THEN "cancel"
                     ELSE "predict_sample"]
    /\ UNCHANGED <<monitoring_state, traffic_source, stats_state,
                   recent_preds, test_jobs, live, setter, dataset_test_resp>>

\* run_cancel without the `return`: the loop goes on with the record
run_cancel_no_return(j) ==
    /\ worker[j].pc = "cancel"
    /\ _job_update(j, [status |-> "failed", message |-> MsgStopped])
    /\ worker' = [worker EXCEPT ![j].pc = "predict_sample"]
    /\ UNCHANGED <<monitoring_state, traffic_source, stats_state,
                   recent_preds, live, setter, dataset_test_resp>>

\* _job_update(job_id, status="failed", message=...); return
run_cancel(j) ==
    /\ worker[j].pc = "cancel"
    /\ _job_update(j, [status |-> "failed", message |-> MsgStopped])
    /\ worker' = [worker EXCEPT ![j].pc = "restore"]
    /\ UNCHANGED <<monitoring_state, traffic_source, stats_state,
                   recent_preds, live, setter, dataset_test_resp>>

\* label, prob = predict_sample(row) and the local benign/attack counters;
\* the oracle may raise
run_predict_sample(j) ==
    /\ worker[j].pc = "predict_sample"
    /\ \/ \E o \in OracleOutcomes :
            worker' = [worker EXCEPT
                ![j].pc = "push", ![j].label = o[1], ![j].prob = o[2],
                ![j].benign = IF o[1] = "BENIGN" THEN @ + 1 ELSE @,
                ![j].attack = IF o[1] = "BENIGN" THEN @ ELSE @ + 1]
       \/ worker' = [worker EXCEPT ![j].pc = "except"]
    /\ UNCHANGED <<monitoring_state, traffic_source, stats_state,
                   recent_preds, test_jobs, live, setter, dataset_test_resp>>

\* _push_prediction_to_dashboard(label, float(prob)); processed += 1
run_push(j) ==
    /\ worker[j].pc = "push"
    /\ _push_prediction_to_dashboard(worker[j].label, worker[j].prob)
    /\ worker' = [worker EXCEPT
            ![j].processed = @ + 1, ![j].label = "", ![j].prob = 0,
            ![j].late = IF monitoring_state.running THEN @ ELSE @ + 1,
            ![j].pc = IF (worker[j].processed + 1) % ProgressStride = 0
                      THEN "progress" ELSE "check"]
    /\ UNCHANGED <<monitoring_state, traffic_source, test_jobs, live,
                   setter, dataset_test_resp>>

\* run_progress that publishes the processed count without the counters
run_progress_no_counters(j) ==
    /\ worker[j].pc = "progress"
    /\ _job_update(j, [processed |-> worker[j].processed,
                       message |-> MsgProcessed(worker[j].processed,
                                                worker[j].total)])
    /\ worker' = [worker EXCEPT ![j].pc = "check"]
    /\ UNCHANGED <<monitoring_state, traffic_source, stats_state,
                   recent_preds, live, setter, dataset_test_resp>>

\* the progress _job_update of every ProgressStride-th record
run_progress(j) ==
    /\ worker[j].pc = "progress"
    /\ _job_update(j, [processed |-> worker[j].processed,
                       benign |-> worker[j].benign,
                       attack |-> worker[j].attack,
                       message |-> MsgProcessed(worker[j].processed,
                                                worker[j].total)])
    /\ worker' = [worker EXCEPT ![j].pc = "check"]
    /\ UNCHANGED <<monitoring_state, traffic_source, stats_state,
                   recent_preds, live, setter, dataset_test_resp>>

\* run_done that leaves the loop without the final _job_update
run_done_no_update(j) ==
    /\ worker[j].pc = "check"
    /\ worker[j].processed >= worker[j].total
    /\ worker' = [worker EXCEPT ![j].pc = "restore"]
    /\ UNCHANGED <<monitoring_state, traffic_source, stats_state,
                   recent_preds, test_jobs, live, setter, dataset_test_resp>>

\* the loop is exhausted: _job_update(job_id, status="done", ...)
run_done(j) ==
    /\ worker[j].pc = "check"
    /\ worker[j].processed >= worker[j].total
    /\ _job_update(j, [status |-> "done", processed |-> worker[j].processed,
                       benign |-> worker[j].benign,
                       attack |-> worker[j].attack, message |-> MsgDone])
    /\ worker' = [worker EXCEPT ![j].pc = "restore"]
    /\ UNCHANGED <<monitoring_state, traffic_source, stats_state,
                   recent_preds, live, setter, dataset_test_resp>>

\* run_except that swallows the exception and goes on with the next record
run_except_continue(j) ==
    /\ worker[j].pc = "except"
    /\ _job_update(j, [status |-> "failed", message |-> OracleError])
    /\ worker' = [worker EXCEPT ![j].pc = "check", ![j].processed = @ + 1]
    /\ UNCHANGED <<monitoring_state, traffic_source, stats_state,
                   recent_preds, live, setter, dataset_test_resp>>

\* except Exception as e: _job_update(job_id, status="failed", message=str(e))
run_except(j) ==
    /\ worker[j].pc = "except"
    /\ _job_update(j, [status |-> "failed", message |-> OracleError])
    /\ worker' = [worker EXCEPT ![j].pc = "restore"]
    /\ UNCHANGED <<monitoring_state, traffic_source, stats_state,
                   recent_preds, live, setter, dataset_test_resp>>

\* run_restore that forces "generator" instead of restoring prev_source
run_restore_to_generator(j) ==
    /\ worker[j].pc = "restore"
    /\ traffic_source' = "generator"
    /\ worker' = [worker EXCEPT ![j].pc = "finished"]
    /\ UNCHANGED <<monitoring_state, stats_state, recent_preds, test_jobs,
                   live, setter, dataset_test_resp>>

\* finally: _set_source(prev_source), falling back to "generator"
run_restore(j) ==
    /\ worker[j].pc = "restore"
    /\ traffic_source' =
          IF Normalize(worker[j].prev_source) \in LegalSources
          THEN Normalize(worker[j].prev_source) ELSE "generator"
    /\ worker' = [worker EXCEPT ![j].pc = "finished"]
    /\ UNCHANGED <<monitoring_state, stats_state, recent_preds, test_jobs,
                   live, setter, dataset_test_resp>>

(* --------------------------- specifications --------------------------- *)
\* the steps of the replay workers
WorkerSteps ==
    \/ \E j \in JobIds : run_get_source(j)
    \/ \E j \in JobIds : run_set_dataset(j)
    \/ \E j \in JobIds : run_job_running(j)
    \/ \E j \in JobIds : run_check(j)
    \/ \E j \in JobIds : run_cancel(j)
    \/ \E j \in JobIds : run_predict_sample(j)
    \/ \E j \in JobIds : run_push(j)
    \/ \E j \in JobIds : run_progress(j)
    \/ \E j \in JobIds : run_done(j)
    \/ \E j \in JobIds : run_except(j)
    \/ \E j \in JobIds : run_restore(j)

\* the steps of the /predict call on the event loop
LiveSteps ==
    \/ predict_require_monitoring
    \/ predict_require_source
    \/ predict_predict_sample
    \/ predict_push
    \/ predict_return

\* POST /dataset/test by an operator who submits one replay job
Submit ==
    /\ test_jobs = << >>
    /\ \E readable \in BOOLEAN, df_len \in 0..MaxLen,
          max_rows \in 1..MaxRowsArg :
          dataset_test(readable, df_len, max_rows)

\* POST /dataset/test at any time, also while a job is running
SubmitAny ==
    \E readable \in BOOLEAN, df_len \in 0..MaxLen, max_rows \in 1..MaxRowsArg :
        dataset_test(readable, df_len, max_rows)

SourceSetSteps ==
    \/ \E source \in SourceInputs : source_set_write(source)
    \/ source_set_return

\* Every endpoint may be called at any time.
Next ==
    \/ start_monitoring
    \/ stop_monitoring
    \/ reset_stats
    \/ SourceSetSteps
    \/ LiveSteps
    \/ Submit
    \/ WorkerSteps

Spec == Init /\ [][Next]_vars

\* The operator never calls /source/set: the replay worker is the only
\* writer of the source mode.
NextReplay ==
    \/ start_monitoring
    \/ stop_monitoring
    \/ reset_stats
    \/ LiveSteps
    \/ Submit
    \/ WorkerSteps

SpecReplay == Init /\ [][NextReplay]_vars

\* A quiet replay: monitoring is started and never stopped, and once a job
\* has been submitted nothing but its worker writes the statistics.  The
\* cancel branch of the worker needs a stop and is not among the steps.
push_before_job == test_jobs = << >> /\ predict_push

reset_before_job == test_jobs = << >> /\ reset_stats

NextQuiet ==
    \/ start_monitoring
    \/ predict_require_monitoring
    \/ predict_require_source
    \/ predict_predict_sample
    \/ push_before_job
    \/ predict_return
    \/ reset_before_job
    \/ Submit
    \/ \E j \in JobIds : run_get_source(j)
    \/ \E j \in JobIds : run_set_dataset(j)
    \/ \E j \in JobIds : run_job_running(j)
    \/ \E j \in JobIds : run_check(j)
    \/ \E j \in JobIds : run_predict_sample(j)
    \/ \E j \in JobIds : run_push(j)
    \/ \E j \in JobIds : run_progress(j)
    \/ \E j \in JobIds : run_done(j)
    \/ \E j \in JobIds : run_except(j)
    \/ \E j \in JobIds : run_restore(j)

SpecQuiet == Init /\ [][NextQuiet]_vars

\* Monitoring is stopped only while a job is in status running, and is not
\* started again once a job has been submitted.
start_before_job == test_jobs = << >> /\ start_monitoring

stop_while_running ==
    /\ \E j \in DOMAIN test_jobs : test_jobs[j].status = "running"
    /\ stop_monitoring

NextStop ==
    \/ start_before_job
    \/ stop_while_running
    \/ reset_stats
    \/ SourceSetSteps
    \/ LiveSteps
    \/ Submit
    \/ WorkerSteps

SpecStop == Init /\ [][NextStop]_vars

\* Replay jobs may be submitted while another one runs; the operator
\* starts and stops monitoring but never calls /source/set, /predict or
\* /stats/reset, so the workers are the only writers of the source mode.
NextTwoJobs ==
    \/ start_monitoring
    \/ stop_monitoring
    \/ SubmitAny
    \/ WorkerSteps

SpecTwoJobs == Init /\ [][NextTwoJobs]_vars

\* One step of the background task of job j.
_run_test_job(j) ==
    \/ run_get_source(j)
    \/ run_set_dataset(j)
    \/ run_job_running(j)
    \/ run_check(j)
    \/ run_cancel(j)
    \/ run_predict_sample(j)
    \/ run_push(j)
    \/ run_progress(j)
    \/ run_done(j)
    \/ run_except(j)
    \/ run_restore(j)

\* The thread pool runs every background task it was given: a worker that
\* can take a step eventually takes one.  predict_sample returns or raises,
\* and the locks are held for bounded blocks only.
SpecFairWorker ==
    Init /\ [][NextReplay]_vars /\ \A j \in JobIds : WF_vars(_run_test_job(j))

(* ------------------------------ claims -------------------------------- *)
\* C1: in every reachable state, whatever the interleaving of live calls,
\* replay-worker records and stats resets, total = benign + attack.
C1_TotalIsBenignPlusAttack ==
    stats_state.total = stats_state.benign + stats_state.attack

\* C1 witness: the live path and a replay worker have both recorded, with
\* both kinds of label counted.
C1_Witness ==
    /\ stats_state.benign >= 1
    /\ stats_state.attack >= 1
    /\ live.pc = "return"
    /\ \E j \in JobIds : worker[j].processed >= 1

Terminal == {"done", "failed"}

\* C2: no event of the live path (/predict) is recorded into the statistics
\* while a replay job is in status running.
C2_LiveNeverRecordsDuringReplay ==
    [][ (live.pc = "push" /\ live'.pc = "return")
          => ~ \E j \in DOMAIN test_jobs : test_jobs[j].status = "running"
      ]_vars

\* C3: the source mode is always one of the two legal values; the step
\* that ends a replay worker, however the job ended, sets the mode to the
\* one the worker read when it started; with the worker as the only writer
\* of the mode, the mode of a finished worker's job (done or failed) is the
\* mode from before the job.
C3_RestoresPrevSource ==
    /\ [](traffic_source \in LegalSources)
    /\ [][ \A j \in JobIds :
             (worker[j].pc # "finished" /\ worker'[j].pc = "finished")
                => /\ worker[j].pc = "restore"
                   /\ test_jobs[j].status \in Terminal
                   /\ traffic_source' = worker[j].prev_source
         ]_vars
    /\ [](\A j \in JobIds :
             worker[j].pc = "finished"
                => /\ test_jobs[j].status \in Terminal
                   /\ traffic_source = worker[j].prev_source)

\* C3 witness: a cancelled job whose worker has restored a pre-job mode
\* that is not the default one.
C3_Witness ==
    \E j \in DOMAIN test_jobs :
        /\ worker[j].pc = "finished"
        /\ test_jobs[j].status = "failed"
        /\ test_jobs[j].message = MsgStopped
        /\ worker[j].processed >= 1
        /\ worker[j].prev_source = "dataset"
        /\ traffic_source = "dataset"

C5_StoppedJobEndsFailed ==
    \A j \in DOMAIN test_jobs :
        (~monitoring_state.running /\ worker[j].pc = "finished")
           => /\ test_jobs[j].status = "failed"
              /\ test_jobs[j].message = MsgStopped
              /\ worker[j].late <= 1

\* C5 amended: monitoring was stopped while the job was running and stays
\* stopped.  The worker records at most one event after the stop; the first
\* loop check it makes after the stop fails the job with the monitoring
\* message; a finished job is failed with that message, or failed with the
\* oracle's message (the call in flight raised), or done with every record
\* processed (the stop came after the check of the last record); a job is
\* never done unless all its records were processed.
C5_StopCancelsAtNextCheck ==
    /\ [](\A j \in DOMAIN test_jobs :
             /\ worker[j].late <= 1
             /\ test_jobs[j].status = "done"
                  => /\ test_jobs[j].processed = test_jobs[j].total
                     /\ worker[j].processed = test_jobs[j].total
             /\ (~monitoring_state.running /\ worker[j].pc = "finished")
                  => \/ /\ test_jobs[j].status = "failed"
                        /\ test_jobs[j].message = MsgStopped
                     \/ /\ test_jobs[j].status = "failed"
                        /\ test_jobs[j].message = OracleError
                        /\ worker[j].late = 0
                     \/ /\ test_jobs[j].status = "done"
                        /\ worker[j].processed = test_jobs[j].total)
    /\ [][ \A j \in DOMAIN test_jobs :
             /\ (~monitoring_state.running /\ worker[j].pc = "check"
                   /\ worker'[j].pc # "check"
                   /\ worker[j].processed < test_jobs[j].total)
                  => worker'[j].pc = "cancel"
             /\ (worker[j].pc = "cancel" /\ worker'[j].pc # "cancel")
                  => /\ worker'[j].pc = "restore"
                     /\ test_jobs'[j].status = "failed"
                     /\ test_jobs'[j].message = MsgStopped
         ]_vars

\* C5 witness: the stop came while a record was in flight; the worker
\* recorded that one record and the job then failed with the monitoring
\* message.
C5_Witness ==
    \E j \in DOMAIN test_jobs :
        /\ ~monitoring_state.running
        /\ worker[j].pc = "finished"
        /\ test_jobs[j].status = "failed"
        /\ test_jobs[j].message = MsgStopped
        /\ worker[j].late = 1
        /\ worker[j].processed < test_jobs[j].total

\* C6: the processed count in the record of a job that failed because
\* monitoring was stopped is the number of records its worker handled.
C6_CancelledJobReportsProcessed ==
    \A j \in DOMAIN test_jobs :
        (test_jobs[j].status = "failed" /\ test_jobs[j].message = MsgStopped)
           => test_jobs[j].processed = worker[j].processed

\* C7: a job record is created queued, is never removed, its status moves
\* only queued -> running -> done or failed, and once it is done or failed
\* no field of the record changes again.
C7_JobLifecycle ==
    [][ \A j \in JobIds :
          /\ j \in DOMAIN test_jobs => j \in DOMAIN test_jobs'
          /\ (j \notin DOMAIN test_jobs /\ j \in DOMAIN test_jobs')
                => test_jobs'[j].status = "queued"
          /\ j \in DOMAIN test_jobs
                => /\ test_jobs[j].status # test_jobs'[j].status
                      => <<test_jobs[j].status, test_jobs'[j].status>>
                            \in { <<"queued", "running">>,
                                  <<"running", "done">>,
                                  <<"running", "failed">> }
                   /\ test_jobs[j].status \in Terminal
                      => test_jobs'[j] = test_jobs[j]
      ]_vars

\* C7 witness: a job failed by a stop of monitoring whose worker has ended.
C7_Witness ==
    \E j \in DOMAIN test_jobs :
        /\ test_jobs[j].status = "failed"
        /\ test_jobs[j].message = MsgStopped
        /\ worker[j].pc = "finished"

C8_CountBenign(dq) ==
    Cardinality({k \in 1..Len(dq) : dq[k].label = "BENIGN"})

C9_LiveRejections ==
    /\ [](live.resp.code \in {409, 423} => live.pc = "idle")
    /\ [](live.pc \in {"idle", "require_source", "predict_sample"}
             => live.label = "" /\ live.prob = 0)
    /\ [][ /\ (live.pc = "idle" /\ live' # live
                 /\ ~monitoring_state.running)
                => /\ live'.resp.code = 409
                   /\ live'.pc = "idle"
                   /\ UNCHANGED <<stats_state, recent_preds>>
           /\ (live.pc = "require_source" /\ live' # live
                 /\ traffic_source = "dataset")
                => /\ live'.resp.code = 423
                   /\ live'.pc = "idle"
                   /\ UNCHANGED <<stats_state, recent_preds>>
           /\ (live'.pc = "require_source" /\ live.pc # "require_source")
                => monitoring_state.running
           /\ (live'.pc = "predict_sample" /\ live.pc # "predict_sample")
                => traffic_source = "generator"
         ]_vars

\* C9 witness: a call rejected with 423 while a replay job is running and
\* the statistics already hold events.
C9_Witness ==
    /\ live.resp.code = 423
    /\ stats_state.total >= 1
    /\ \E j \in DOMAIN test_jobs : test_jobs[j].status = "running"

\* C10: a set with a legal value writes it, so that a get after
\* set(generator), set(dataset) gives dataset; a set with any other value is
\* answered 400 and leaves the mode unchanged; a set answered 200 returns
\* the mode it has written.
C10_SetReturnsWrittenMode ==
    /\ [][ \A source \in SourceInputs :
             (setter.pc = "idle" /\ source_set_write(source))
                => IF Normalize(source) \in LegalSources
                   THEN _get_source' = Normalize(source)
                   ELSE /\ setter'.resp.code = 400
                        /\ _get_source' = _get_source
         ]_vars
    /\ [][ (setter.pc = "return" /\ setter'.pc = "idle")
             => /\ setter'.resp.code = 200
                /\ setter'.resp.source = setter.src
         ]_vars

\* C11: once start or stop has been called, exactly one of started_at and
\* stopped_at is set, and it is the one that matches the running flag.
C11_OneTimestampMatchesFlag ==
    (monitoring_state.started_at \/ monitoring_state.stopped_at)
       => IF monitoring_state.running
          THEN monitoring_state.started_at /\ ~monitoring_state.stopped_at
          ELSE monitoring_state.stopped_at /\ ~monitoring_state.started_at


\* C12: when the oracle raises on a record of a replay job, (a) the raise
\* itself records nothing, (b) the handler sets the job to failed with the
\* exception's message and goes to the restore step without touching the
\* shared counters or the ring buffer, so what the earlier records added
\* stays, and (c) from then on the worker processes no further record and
\* the job record keeps its failed status and message.
C12_OracleFailureEndsJob ==
    [][\A j \in JobIds :
         /\ (worker[j].pc = "predict_sample" /\ worker'[j].pc = "except")
               => /\ UNCHANGED <<stats_state, recent_preds, test_jobs>>
                  /\ worker'[j].processed = worker[j].processed
         /\ (worker[j].pc = "except" /\ worker'[j].pc # "except")
               => /\ worker'[j].pc = "restore"
                  /\ test_jobs'[j].status = "failed"
                  /\ test_jobs'[j].message = OracleError
                  /\ test_jobs'[j].processed = test_jobs[j].processed
                  /\ worker'[j].processed = worker[j].processed
                  /\ UNCHANGED <<stats_state, recent_preds>>
         /\ (worker[j].pc = "restore" /\ worker'[j].pc # "restore")
               => /\ worker'[j].pc = "finished"
                  /\ UNCHANGED <<stats_state, recent_preds, test_jobs>>
         /\ worker[j].pc \in {"except", "restore", "finished"}
               => /\ worker'[j].pc \in {"except", "restore", "finished"}
                  /\ worker'[j].processed = worker[j].processed
         /\ worker[j].pc \in {"restore", "finished"}
               => test_jobs'[j] = test_jobs[j]
    ]_vars

\* C12 witness: a job whose oracle raised after at least one record has
\* finished as failed with the exception's message, and that record is still
\* in the counters and the ring buffer.
C12_Witness ==
    \E j \in DOMAIN test_jobs :
        /\ worker[j].pc = "finished"
        /\ test_jobs[j].status = "failed"
        /\ test_jobs[j].message = OracleError
        /\ worker[j].processed >= 1
        /\ worker[j].processed < worker[j].total
        /\ stats_state.total >= worker[j].processed
        /\ Len(recent_preds) >= worker[j].processed


\* C13: POST /dataset/test with monitoring stopped answers 409, creates no
\* job record, starts no worker and leaves the source mode unchanged; with
\* monitoring running and a readable upload of n rows it adds exactly one
\* job record, queued, with total = min(n, max_rows) and zero counters, and
\* answers with the new identifier while the worker has not run a step.
C13_SubmitGate ==
    [][\A readable \in BOOLEAN, n \in 0..MaxLen, m \in 1..MaxRowsArg :
         dataset_test(readable, n, m) =>
            /\ UNCHANGED traffic_source
            /\ ~monitoring_state.running =>
                  /\ dataset_test_resp'.code = 409
                  /\ UNCHANGED <<test_jobs, worker>>
            /\ (monitoring_state.running /\ readable) =>
                  /\ dataset_test_resp'.code = 200
                  /\ LET id == dataset_test_resp'.job_id
                     IN /\ id \notin DOMAIN test_jobs
                        /\ DOMAIN test_jobs' = DOMAIN test_jobs \cup {id}
                        /\ \A k \in DOMAIN test_jobs :
                              test_jobs'[k] = test_jobs[k]
                        /\ test_jobs'[id].status = "queued"
                        /\ test_jobs'[id].total = Min(n, m)
                        /\ test_jobs'[id].processed = 0
                        /\ test_jobs'[id].benign = 0
                        /\ test_jobs'[id].attack = 0
                        /\ worker'[id].pc = "start"
                        /\ \A k \in JobIds \ {id} : worker'[k] = worker[k]
    ]_vars

\* C13 witness: a submit has just been accepted with more rows than
\* max_rows allows; the job is queued and its worker has not started.
C13_Witness ==
    /\ dataset_test_resp.code = 200
    /\ dataset_test_resp.job_id \in DOMAIN test_jobs
    /\ test_jobs[dataset_test_resp.job_id].status = "queued"
    /\ test_jobs[dataset_test_resp.job_id].total = MaxRowsArg
    /\ worker[dataset_test_resp.job_id].pc = "start"
    /\ monitoring_state.running


\* C14: recent_preds never holds more than RecentMaxLen items; a recorded
\* event becomes the first item, every older item moves one place down in
\* the same order, and only when the buffer was full is an item lost, namely
\* the last (oldest) one; nothing but a push or a reset changes the buffer.
C14_RingBuffer ==
    [][/\ Len(recent_preds') <= RecentMaxLen
       /\ IF stats_state'.total = stats_state.total + 1
          THEN /\ Len(recent_preds') = Min(Len(recent_preds) + 1, RecentMaxLen)
               /\ recent_preds'[1].label = stats_state'.last_prediction.label
               /\ recent_preds'[1].probability =
                     stats_state'.last_prediction.probability
               /\ \A i \in 1..(Len(recent_preds') - 1) :
                     recent_preds'[i + 1] = recent_preds[i]
          ELSE recent_preds' = recent_preds \/ recent_preds' = << >>
    ]_vars

\* C14 witness: more events than the capacity have been recorded since the
\* last reset, the buffer is full and holds both kinds of label.
C14_Witness ==
    /\ Len(recent_preds) = RecentMaxLen
    /\ stats_state.total > RecentMaxLen
    /\ recent_preds[1].label # recent_preds[RecentMaxLen].label


\* the first k non-benign items of dq, in the order of dq
RECURSIVE C15_FirstAlerts(_, _)
C15_FirstAlerts(dq, k) ==
    IF k = 0 \/ dq = << >> THEN << >>
    ELSE IF Head(dq).label # "BENIGN"
         THEN <<Head(dq)>> \o C15_FirstAlerts(Tail(dq), k - 1)
         ELSE C15_FirstAlerts(Tail(dq), k)

\* C15 as stated: for any buffer contents and any limit, the non-benign
\* query returns the first `limit` non-benign events of the newest-first
\* buffer.
C15_AlertsFilterThenTruncate ==
    \A limit \in 1..RecentMaxLen :
        recent_alerts(limit) = C15_FirstAlerts(recent_preds, limit)

\* C15: while monitoring is running the non-benign query returns the first
\* `limit` non-benign events of the newest-first buffer (filtered, then
\* truncated: no benign item in it, none of those events missing); while
\* monitoring is stopped it returns the empty sequence.
C15_AlertsFilterThenTruncateWhileRunning ==
    \A limit \in 1..RecentMaxLen :
        /\ monitoring_state.running
              => recent_alerts(limit) = C15_FirstAlerts(recent_preds, limit)
        /\ ~monitoring_state.running => recent_alerts(limit) = << >>

\* C15 witness: monitoring is running, the newest event is benign and two
\* older ones are not, so that limit 1 must reach beyond the first entry.
C15_Witness ==
    /\ monitoring_state.running
    /\ Len(recent_preds) = RecentMaxLen
    /\ recent_preds[1].label = "BENIGN"
    /\ recent_preds[2].label # "BENIGN"
    /\ recent_preds[RecentMaxLen].label # "BENIGN"
    /\ recent_alerts(1) = <<recent_preds[2]>>
    /\ Len(recent_alerts(RecentMaxLen)) = RecentMaxLen - 1


\* identifiers a client may ask about: the ones in use and one never issued
C16_QueryIds == JobIds \cup {0}

\* C16: the registry never loses an identifier and gains one only by the
\* accepted submit that returns it; a status query answers 404 for every
\* identifier not in the registry, that is for every identifier no accepted
\* submit has returned, and answers 200 with the stored record for every
\* identifier a submit has returned, in every later state, whatever the
\* worker's position.
C16_StatusQuery ==
    [][/\ DOMAIN test_jobs \subseteq DOMAIN test_jobs'
       /\ \A id \in DOMAIN test_jobs' \ DOMAIN test_jobs :
             dataset_test_resp' = [code |-> 200, job_id |-> id]
       /\ dataset_test_resp'.code = 200
             => dataset_test_resp'.job_id \in DOMAIN test_jobs'
       /\ \A id \in C16_QueryIds :
             IF id \in DOMAIN test_jobs'
             THEN /\ dataset_test_status(id)'.code = 200
                  /\ dataset_test_status(id)'.job = test_jobs'[id]
             ELSE dataset_test_status(id)'.code = 404
    ]_vars

\* C16 witness: the worker of a submitted job has finished and the job is
\* still answered with its record, while an identifier never issued is not.
C16_Witness ==
    /\ dataset_test_resp.code = 200
    /\ worker[dataset_test_resp.job_id].pc = "finished"
    /\ dataset_test_status(dataset_test_resp.job_id).code = 200
    /\ dataset_test_status(dataset_test_resp.job_id).job.status = "done"
    /\ dataset_test_status(0).code = 404


\* C17: a /predict call that answers 200 returns the label and the rounded
\* probability the oracle gave for this call's own record, whatever the
\* replay worker and reset_stats do between its push and its return.
C17_PredictReturnsOwnResult ==
    [][(live.pc = "return" /\ live'.pc = "idle" /\ live'.resp.code = 200)
          => /\ live'.resp.item.label = live.label
             /\ live'.resp.item.probability = Round4(live.prob)
    ]_vars


\* C18: under fair scheduling of the worker, every submitted job eventually
\* has a terminal status with its worker past the restore step; no job
\* stays queued or running for ever.
C18_JobTerminates ==
    \A j \in JobIds :
        (worker[j].pc = "start")
           ~> (worker[j].pc = "finished" /\ test_jobs[j].status \in Terminal)

\* C18 witness: a job that had records to process has a terminal status,
\* its worker has run the restore step and monitoring is stopped.
C18_Witness ==
    \E j \in DOMAIN test_jobs :
        /\ worker[j].pc = "finished"
        /\ test_jobs[j].status \in Terminal
        /\ test_jobs[j].total >= 1
        /\ ~monitoring_state.running


\* C19: in every state, every job record a status query can return has
\* benign + attack = processed and processed <= total; its processed count
\* is never above the number of events the worker has recorded; and while
\* the job is running and no progress update is pending, the published
\* count is the largest multiple of ProgressStride the worker has reached.
C19_PublishedProgress ==
    \A j \in DOMAIN test_jobs :
        LET job == dataset_test_status(j).job
        IN /\ dataset_test_status(j).code = 200
           /\ job.benign + job.attack = job.processed
           /\ job.processed <= job.total
           /\ job.processed <= worker[j].processed
           /\ (job.status = "running" /\ worker[j].pc # "progress")
                 => job.processed =
                      (worker[j].processed \div ProgressStride)
                         * ProgressStride
           /\ (job.status = "running" /\ worker[j].pc = "progress")
                 => job.processed = worker[j].processed - ProgressStride

\* C19 witness: a status query sees a progress update, with both counters
\* in it, of a job that is still running.
C19_Witness ==
    \E j \in DOMAIN test_jobs :
        /\ dataset_test_status(j).job.status = "running"
        /\ dataset_test_status(j).job.processed = ProgressStride
        /\ dataset_test_status(j).job.benign >= 1
        /\ dataset_test_status(j).job.attack >= 1
        /\ dataset_test_status(j).job.message
              = MsgProcessed(ProgressStride, worker[j].total)


\* the source mode before any job started: without /source/set the first
\* worker to read the mode reads the startup value, so the startup value
\* was "generator" exactly if some worker read "generator"
C20_ModeBeforeJobs ==
    IF \E j \in JobIds : /\ worker[j].pc \notin {"absent", "start"}
                         /\ worker[j].prev_source = "generator"
    THEN "generator" ELSE "dataset"

\* C20: with no /source/set call, whenever every job is terminal and its
\* worker has run the restore step, the source mode is the one that was
\* active before the first job started, and the mode is "dataset" for as
\* long as any job is in status running, also when two jobs overlap.
C20_OverlappingJobsRestoreMode ==
    /\ (\A j \in JobIds : worker[j].pc = "finished")
          => traffic_source = C20_ModeBeforeJobs
    /\ (\E j \in DOMAIN test_jobs : test_jobs[j].status = "running")
          => traffic_source = "dataset"

=============================================================================
